---- MODULE Spec2Model ----
(***************************************************************************)
(* A model of the two scripts of ciscosmb-devicetype-generator:            *)
(*   generate.py  slugify, create_interfaces, create_console_ports, main   *)
(*   crop.py      crop_transparent_png, enforce_10_to_1_aspect,            *)
(*                process_image, process_directory                         *)
(*                                                                         *)
(* A Python str is a sequence of one-character strings.  A character that  *)
(* is not ASCII is written as a token: "E_acute" is U+00C9, "e_acute" is   *)
(* U+00E9, "sup2" is U+00B2 (SUPERSCRIPT TWO).                             *)
(***************************************************************************)
EXTENDS Integers, Sequences, FiniteSets, TLC

VARIABLES
    s_in, s_out, s_again, s_pc,     \* slugify: argument, result, result of the result
    if_row, if_out, if_pc,          \* create_interfaces: the row and what the call gave
    m_csv,                          \* main: the rows csv.DictReader yields
    m_images,                       \* main: the paths os.path.isfile finds
    m_idx,                          \* main: the row the loop is at (from 1)
    m_disk,                         \* main: output path -> what the file holds
    m_log,                          \* main: the writes so far, in order (path, document)
    m_pc, m_exc,                    \* main: "loop" / "raised" / "done"; the exception
    a_img, a_out, a_pc,             \* enforce_10_to_1_aspect: the image given and returned
    d_files,                        \* process_directory: file name -> what the file holds
    d_orig,                         \* process_directory: d_files when the run began
    d_listing,                      \* process_directory: what os.listdir returned
    d_overwrite,                    \* process_directory: the overwrite argument
    d_pos,                          \* process_directory: the entry the loop is at (from 1)
    d_calls,                        \* process_directory: the process_image calls so far
    d_pc                            \* process_directory: "loop" / "raised" / "done"

slugVars == <<s_in, s_out, s_again, s_pc>>
ifaceVars == <<if_row, if_out, if_pc>>
mainVars == <<m_csv, m_images, m_idx, m_disk, m_log, m_pc, m_exc>>
aspectVars == <<a_img, a_out, a_pc>>
dirVars == <<d_files, d_orig, d_listing, d_overwrite, d_pos, d_calls, d_pc>>
vars == <<slugVars, ifaceVars, mainVars, aspectVars, dirVars>>

(***************************************************************************)
(* Characters and the str methods the scripts use.                         *)
(***************************************************************************)
UpperLetters ==
    <<"A","B","C","D","E","F","G","H","I","J","K","L","M",
      "N","O","P","Q","R","S","T","U","V","W","X","Y","Z","E_acute">>
LowerLetters ==
    <<"a","b","c","d","e","f","g","h","i","j","k","l","m",
      "n","o","p","q","r","s","t","u","v","w","x","y","z","e_acute">>
AsciiLower == {LowerLetters[i] : i \in 1..26}
AsciiDigits == {"0","1","2","3","4","5","6","7","8","9"}
Whitespace == {" ", "\t"}

DigitValue(c) == CHOOSE v \in 0..9 : <<"0","1","2","3","4","5","6","7","8","9">>[v + 1] = c

\* str.lower() / str.upper(), one character
LowerChar(c) ==
    IF \E i \in 1..Len(UpperLetters) : UpperLetters[i] = c
    THEN LowerLetters[CHOOSE i \in 1..Len(UpperLetters) : UpperLetters[i] = c]
    ELSE c
UpperChar(c) ==
    IF \E i \in 1..Len(LowerLetters) : LowerLetters[i] = c
    THEN UpperLetters[CHOOSE i \in 1..Len(LowerLetters) : LowerLetters[i] = c]
    ELSE c
lower(s) == [i \in 1..Len(s) |-> LowerChar(s[i])]
upper(s) == [i \in 1..Len(s) |-> UpperChar(s[i])]

\* str.lstrip(chars) / str.rstrip(chars) / str.strip(chars)
RECURSIVE lstrip(_, _)
lstrip(s, chars) ==
    IF s # <<>> /\ Head(s) \in chars THEN lstrip(Tail(s), chars) ELSE s
RECURSIVE rstrip(_, _)
rstrip(s, chars) ==
    IF s # <<>> /\ s[Len(s)] \in chars
    THEN rstrip(SubSeq(s, 1, Len(s) - 1), chars) ELSE s
stripChars(s, chars) == rstrip(lstrip(s, chars), chars)
strip(s) == stripChars(s, Whitespace)

\* sub in s  /  s.startswith(p)  /  s.endswith(p)
startswith(s, p) == Len(p) <= Len(s) /\ SubSeq(s, 1, Len(p)) = p
endswith(s, p) == Len(p) <= Len(s) /\ SubSeq(s, Len(s) - Len(p) + 1, Len(s)) = p
contains(s, sub) ==
    \E i \in 1..(Len(s) - Len(sub) + 1) : SubSeq(s, i, i + Len(sub) - 1) = sub

\* All strings over an alphabet of at most n characters
StringsUpTo(alphabet, n) == UNION {[1..k -> alphabet] : k \in 0..n}

(***************************************************************************)
(* generate.py: slugify                                                    *)
(***************************************************************************)
\* the class [a-z0-9] of the pattern at generate.py:26
IsSlugAlnum(c) == c \in AsciiLower \cup AsciiDigits

\* re.sub(r'[^a-z0-9]+', '-', s): every maximal run outside [a-z0-9] becomes one '-'
RECURSIVE SubNonAlnumRuns(_, _)
SubNonAlnumRuns(s, inRun) ==
    IF s = <<>> THEN <<>>
    ELSE IF IsSlugAlnum(Head(s)) THEN <<Head(s)>> \o SubNonAlnumRuns(Tail(s), FALSE)
    ELSE IF inRun THEN SubNonAlnumRuns(Tail(s), TRUE)
    ELSE <<"-">> \o SubNonAlnumRuns(Tail(s), TRUE)

\* re.sub(r'-+', '-', s): every maximal run of '-' becomes one '-'
RECURSIVE SubDashRuns(_, _)
SubDashRuns(s, inRun) ==
    IF s = <<>> THEN <<>>
    ELSE IF Head(s) # "-" THEN <<Head(s)>> \o SubDashRuns(Tail(s), FALSE)
    ELSE IF inRun THEN SubDashRuns(Tail(s), TRUE)
    ELSE <<"-">> \o SubDashRuns(Tail(s), TRUE)

\* a slugify that forgets the final strip('-')
slugify_nostrip(s) == SubDashRuns(SubNonAlnumRuns(lower(s), FALSE), FALSE)

slugify(s) ==
    stripChars(SubDashRuns(SubNonAlnumRuns(lower(s), FALSE), FALSE), {"-"})


(***************************************************************************)
(* generate.py: the CSV row and the conversions applied to its cells       *)
(*                                                                         *)
(* A row of csv.DictReader is a function from the header's column names to *)
(* cells.  A column the header lacks is not in the row's DOMAIN; a cell a  *)
(* short line lacks is None (DictReader's restval).                        *)
(***************************************************************************)
None == <<"<None>">>
NoExc == "none"

Ok(v) == [exc |-> NoExc, val |-> v]
Raise(e) == [exc |-> e, val |-> <<>>]

\* row[key]: the exception of the subscript, if any
Subscript(row, key) == IF key \in DOMAIN row THEN Ok(row[key]) ELSE Raise("KeyError")
\* row.get(key, '')
Get(row, key) == IF key \in DOMAIN row THEN row[key] ELSE <<>>

\* str.isdigit(): non-empty and every character a digit (U+00B2 is one)
isdigit(s) == s # <<>> /\ \A i \in 1..Len(s) : s[i] \in AsciiDigits \cup {"sup2"}

RECURSIVE DecimalValue(_)
DecimalValue(ds) ==
    IF ds = <<>> THEN 0
    ELSE 10 * DecimalValue(SubSeq(ds, 1, Len(ds) - 1)) + DigitValue(ds[Len(ds)])

\* an int() that turns what it cannot read into 0
int_lenient(cell) ==
    IF cell = None THEN Ok(0)
    ELSE LET t == strip(cell)
         IN  IF t = <<>> \/ \E i \in 1..Len(t) : t[i] \notin AsciiDigits
             THEN Ok(0) ELSE Ok(DecimalValue(t))

\* int(cell): surrounding whitespace and one sign are accepted, then ASCII
\* digits only; None is a TypeError, anything else a ValueError.
\* (The cells of the model hold no '_' and no non-ASCII decimal digit.)
int_(cell) ==
    IF cell = None THEN Raise("TypeError")
    ELSE LET t == strip(cell)
             signed == t # <<>> /\ Head(t) \in {"+", "-"}
             ds == IF signed THEN Tail(t) ELSE t
         IN  IF ds = <<>> \/ \E i \in 1..Len(ds) : ds[i] \notin AsciiDigits
             THEN Raise("ValueError")
             ELSE Ok(IF signed /\ Head(t) = "-" THEN 0 - DecimalValue(ds) ELSE DecimalValue(ds))

(***************************************************************************)
(* generate.py: create_interfaces                                          *)
(***************************************************************************)
CountKeys ==
    <<"GigabitEthernet Copper", "GigabitEthernet SFP", "GigabitEthernet Combo",
      "TwoGigabitEthernet", "TenGigabitEthernet Copper", "TenGigabitEthernet SFP+",
      "TenGigabitEthernet Combo">>

\* generate.py:37-38
is_stacking(row) == lower(strip(Get(row, "Stacking"))) = <<"t", "r", "u", "e">>

\* generate.py:41-46
base_name_1g(stacking) == IF stacking THEN "GigabitEthernet1/0/" ELSE "GigabitEthernet"
base_name_10g(stacking) == IF stacking THEN "TenGigabitEthernet1/0/" ELSE "TenGigabitEthernet"

\* a PoE test that looks for 'FP-' alone
is_poe_fp_only(row) == contains(upper(row["Model"]), <<"F", "P", "-">>)

\* generate.py:53-54
is_poe(row) ==
    LET model_name == upper(row["Model"])
    IN  contains(model_name, <<"P", "-">>) \/ contains(model_name, <<"F", "P", "-">>)

\* the record of one port of each category (generate.py:59-66, 75-79, 88-94,
\* 104-108, 117-121, 130-134, 143-148)
PortProto(cat, poe) ==
    CASE cat = 1 ->
           IF poe THEN [type |-> "1000base-t", enabled |-> TRUE,
                        poe_mode |-> "pse", poe_type |-> "type2-ieee802.3at"]
           ELSE [type |-> "1000base-t", enabled |-> TRUE]
      [] cat = 2 -> [type |-> "1000base-x-sfp", enabled |-> TRUE]
      [] cat = 3 -> [type |-> "1000base-x-sfp", description |-> "SFP/RJ45 Combo",
                     enabled |-> TRUE]
      [] cat = 4 -> [type |-> "2.5gbase-t", enabled |-> TRUE]
      [] cat = 5 -> [type |-> "10gbase-t", enabled |-> TRUE]
      [] cat = 6 -> [type |-> "10gbase-x-sfpp", enabled |-> TRUE]
      [] cat = 7 -> [type |-> "10gbase-x-sfpp", description |-> "SFP+/RJ45 Combo",
                     enabled |-> TRUE]

\* for _ in range(n): append a port named base+index; index += 1
PortLoop(base, first, n, proto) ==
    [i \in 1..n |-> [name |-> base \o ToString(first + i - 1)] @@ proto]

\* range(n) runs max(n, 0) times
Times(n) == IF n > 0 THEN n ELSE 0

\* a 10G counter that goes on from the 1G counter
int_index_10g_shared(after_1g) == after_1g

\* generate.py:50: the 10G counter starts at 1 whatever the 1G counter reached
int_index_10g_start(after_1g) == 1

\* an OOB test that accepts every digit string
oob_present_any(cell) == cell # None /\ cell # <<>> /\ isdigit(cell)

\* generate.py:155, once int() is known not to raise
oob_present(cell) == cell # None /\ cell # <<>> /\ isdigit(cell) /\ int_(cell).val > 0

\* an OOB test that converts the cell without looking at it first
oob_exc_strict(cell) == int_(cell).exc

\* generate.py:155: the only exception of the test is int()'s
oob_exc(cell) ==
    IF cell # None /\ cell # <<>> /\ isdigit(cell) THEN int_(cell).exc ELSE NoExc

OobIface == [name |-> "OOB", type |-> "1000base-t", enabled |-> TRUE, mgmt_only |-> TRUE]
VlanIface == [name |-> "Vlan1", type |-> "virtual", enabled |-> TRUE, mgmt_only |-> FALSE]

\* the first exception of int(row[key]) over the count columns, in the order
\* the code reads them
RECURSIVE CountsExc(_, _)
CountsExc(row, k) ==
    IF k > Len(CountKeys) THEN NoExc
    ELSE IF Subscript(row, CountKeys[k]).exc # NoExc THEN "KeyError"
    ELSE IF int_(row[CountKeys[k]]).exc # NoExc THEN int_(row[CountKeys[k]]).exc
    ELSE CountsExc(row, k + 1)

create_interfaces(row) ==
    IF Get(row, "Stacking") = None THEN Raise("AttributeError")
    ELSE IF "Model" \notin DOMAIN row THEN Raise("KeyError")
    ELSE IF row["Model"] = None THEN Raise("AttributeError")
    ELSE IF CountsExc(row, 1) # NoExc THEN Raise(CountsExc(row, 1))
    ELSE IF "OOB" \notin DOMAIN row THEN Raise("KeyError")
    ELSE IF oob_exc(row["OOB"]) # NoExc THEN Raise(oob_exc(row["OOB"]))
    ELSE
    LET stacking == is_stacking(row)
        b1 == base_name_1g(stacking)
        b10 == base_name_10g(stacking)
        poe == is_poe(row)
        n == [k \in 1..7 |-> Times(int_(row[CountKeys[k]]).val)]
        i1 == 1
        i2 == i1 + n[1]
        i3 == i2 + n[2]
        i4 == i3 + n[3]
        j5 == int_index_10g_start(i4 + n[4])
        j6 == j5 + n[5]
        j7 == j6 + n[6]
    IN  Ok(   PortLoop(b1, i1, n[1], PortProto(1, poe))
           \o PortLoop(b1, i2, n[2], PortProto(2, poe))
           \o PortLoop(b1, i3, n[3], PortProto(3, poe))
           \o PortLoop(b1, i4, n[4], PortProto(4, poe))
           \o PortLoop(b10, j5, n[5], PortProto(5, poe))
           \o PortLoop(b10, j6, n[6], PortProto(6, poe))
           \o PortLoop(b10, j7, n[7], PortProto(7, poe))
           \o (IF oob_present(row["OOB"]) THEN <<OobIface>> ELSE <<>>)
           \o <<VlanIface>>)

(***************************************************************************)
(* generate.py: create_console_ports and the body of main's loop           *)
(***************************************************************************)
ConKeys == <<"con0", "con1", "con2">>

\* generate.py:181-187
RECURSIVE ConsoleLoop(_, _)
ConsoleLoop(row, k) ==
    IF k > Len(ConKeys) THEN Ok(<<>>)
    ELSE IF Get(row, ConKeys[k]) = None THEN Raise("AttributeError")
    ELSE LET ctype == strip(Get(row, ConKeys[k]))
             rest == ConsoleLoop(row, k + 1)
         IN  IF rest.exc # NoExc THEN rest
             ELSE IF ctype # <<>>
             THEN Ok(<<[name |-> ConKeys[k], type |-> ctype]>> \o rest.val)
             ELSE rest

create_console_ports(row) == ConsoleLoop(row, 1)

\* str.replace(old, new): every occurrence, left to right
RECURSIVE replace(_, _, _)
replace(s, old, new) ==
    IF s = <<>> THEN <<>>
    ELSE IF startswith(s, old)
    THEN new \o replace(SubSeq(s, Len(old) + 1, Len(s)), old, new)
    ELSE <<Head(s)>> \o replace(Tail(s), old, new)

RECURSIVE Pow10(_)
Pow10(k) == IF k = 0 THEN 1 ELSE 10 * Pow10(k - 1)

\* a decimal number mant / 10^scale with no trailing zero in its fraction
RECURSIVE Normal(_, _)
Normal(mant, scale) ==
    IF scale > 0 /\ mant % 10 = 0 THEN Normal(mant \div 10, scale - 1)
    ELSE [mant |-> mant, scale |-> scale]

\* float(cell), for cells of the form [ws][sign]digits[.digits][ws] or
\* [ws][sign].digits[ws]; everything else the model's cells hold is a
\* ValueError, None a TypeError.  The value is kept as an exact decimal: the
\* cells are short enough for the double to round and compare as it does.
float_(cell) ==
    IF cell = None THEN Raise("TypeError")
    ELSE LET t == strip(cell)
             signed == t # <<>> /\ Head(t) \in {"+", "-"}
             u == IF signed THEN Tail(t) ELSE t
             dots == {i \in 1..Len(u) : u[i] = "."}
             dot == IF dots = {} THEN Len(u) + 1 ELSE CHOOSE i \in dots : TRUE
             whole == SubSeq(u, 1, dot - 1)
             frac == SubSeq(u, dot + 1, Len(u))
             ds == whole \o frac
             wellFormed == /\ Cardinality(dots) <= 1
                           /\ ds # <<>>
                           /\ \A i \in 1..Len(ds) : ds[i] \in AsciiDigits
         IN  IF ~wellFormed THEN Raise("ValueError")
             ELSE LET v == Normal(DecimalValue(ds), Len(frac))
                  IN  Ok(IF signed /\ Head(t) = "-"
                         THEN [mant |-> 0 - v.mant, scale |-> v.scale] ELSE v)

\* int(round(x)): to the nearest integer, a half to the even one
round_(x) ==
    LET unit == Pow10(x.scale)
        q == x.mant \div unit
        r == x.mant % unit
    IN  IF 2 * r < unit THEN q
        ELSE IF 2 * r > unit THEN q + 1
        ELSE IF q % 2 = 0 THEN q ELSE q + 1

Chars_cisco == <<"c", "i", "s", "c", "o", "-">>
Chars_C1300 == <<"C", "1", "3", "0", "0">>
Chars_Catalyst1300 == <<"C","a","t","a","l","y","s","t"," ","1","3","0","0">>
Chars_ImageDir == <<"e","l","e","v","a","t","i","o","n","-","i","m","a","g","e","s","/">>
Chars_front == <<".", "f", "r", "o", "n", "t", ".", "p", "n", "g">>
Chars_rear == <<".", "r", "e", "a", "r", ".", "p", "n", "g">>
Chars_OutDir == <<"C", "i", "s", "c", "o", "/">>
Chars_yaml == <<".", "y", "a", "m", "l">>

\* generate.py:197
device_slug(model) == Chars_cisco \o slugify(model)
\* generate.py:234-235
front_path(slug) == Chars_ImageDir \o lower(slug) \o Chars_front
rear_path(slug) == Chars_ImageDir \o lower(slug) \o Chars_rear

\* a file name that keeps the model's own case
out_filename_as_is(model) == Chars_OutDir \o model \o Chars_yaml

\* generate.py:199 and 248
out_filename(model) == Chars_OutDir \o upper(model) \o Chars_yaml

\* generate.py:194-243: the device_dict of a row, or the first exception.
\* images is the set of paths for which os.path.isfile is true.
build_device(row, images) ==
    LET weight_lbs == float_(row["Weight (pounds)"])
        draw == float_(row["Draw"])
        interfaces == create_interfaces(row)
        console_ports == create_console_ports(row)
    IN
    IF "Model" \notin DOMAIN row THEN Raise("KeyError")
    ELSE IF row["Model"] = None THEN Raise("AttributeError")
    ELSE IF "Weight (pounds)" \notin DOMAIN row THEN Raise("KeyError")
    ELSE IF weight_lbs.exc # NoExc THEN Raise(weight_lbs.exc)
    ELSE IF "Draw" \notin DOMAIN row THEN Raise("KeyError")
    ELSE IF draw.exc # NoExc THEN Raise(draw.exc)
    ELSE IF interfaces.exc # NoExc THEN Raise(interfaces.exc)
    ELSE IF console_ports.exc # NoExc THEN Raise(console_ports.exc)
    ELSE IF "psu0" \notin DOMAIN row THEN Raise("KeyError")
    ELSE
    LET model == row["Model"]
        slug == device_slug(model)
    IN  Ok([manufacturer |-> "Cisco",
            model |-> replace(model, Chars_C1300, Chars_Catalyst1300),
            slug |-> slug,
            part_number |-> model,
            u_height |-> 1,
            is_full_depth |-> FALSE,
            comments |-> "[Catalyst 1300 Datasheet](...)",
            front_image |-> front_path(slug) \in images,
            rear_image |-> rear_path(slug) \in images,
            weight |-> weight_lbs.val,
            weight_unit |-> "lb",
            interfaces |-> interfaces.val,
            console_ports |-> console_ports.val,
            power_ports |-> <<[name |-> "PSU0", type |-> row["psu0"],
                               maximum_draw |-> round_(draw.val)]>>])

\* generate.py:246-251: what the output file holds once it is closed
Document(device_dict) == [start |-> "---", body |-> device_dict]

(***************************************************************************)
(* crop.py                                                                 *)
(*                                                                         *)
(* An image is its mode, its size (width, height) and the size of the      *)
(* bounding box of its pixels of non-zero alpha (NoBox when it has none);  *)
(* origin and passes tell which file the pixels came from and how often    *)
(* they went through process_image.                                        *)
(***************************************************************************)
NoBox == <<0, 0>>
NoImage == [kind |-> "none"]
Image(mode, size, box, origin, passes) ==
    [kind |-> "image", mode |-> mode, size |-> size, box |-> box,
     origin |-> origin, passes |-> passes]

\* crop.py:13-14, 38-39: convert("RGBA") gives a mode without alpha an opaque one
convert_rgba(img) ==
    IF img.mode = "RGBA" THEN img ELSE [img EXCEPT !.mode = "RGBA", !.box = img.size]

\* Image.crop((0, 0, right, bottom))
crop_to(img, right, bottom) ==
    [img EXCEPT !.size = <<right, bottom>>,
                !.box = <<IF img.box[1] < right THEN img.box[1] ELSE right,
                          IF img.box[2] < bottom THEN img.box[2] ELSE bottom>>]

\* crop.py:17-26: crop to the bounding box of the non-transparent pixels
crop_transparent(img) ==
    LET rgba == convert_rgba(img)
    IN  IF rgba.box # NoBox THEN [rgba EXCEPT !.size = rgba.box] ELSE rgba

\* a target of exactly ten times the height
target_width_10(height) == 10 * height

\* crop.py:42: int(9.8 * height).  The double nearest 9.8 lies above 9.8 by
\* less than 1e-15, so the product truncates to floor(98 * height / 10)
\* for every height an image can have.
target_width(height) == (98 * height) \div 10

\* Image.new("RGB", size, white) with img pasted at (0, 0) through its alpha
flatten_on_white(img, size) ==
    [img EXCEPT !.mode = "RGB", !.size = size, !.box = size]

\* crop.py:29-62
enforce_10_to_1_aspect(img) ==
    LET rgba == convert_rgba(img)
        width == rgba.size[1]
        height == rgba.size[2]
        target == target_width(height)
    IN  IF width = target THEN flatten_on_white(rgba, <<width, height>>)
        ELSE IF width < target THEN flatten_on_white(rgba, <<target, height>>)
        ELSE flatten_on_white(crop_to(rgba, target, height), <<target, height>>)

\* crop.py:73-76: what process_image saves for what it opened
processed(img) ==
    LET final_img == enforce_10_to_1_aspect(crop_transparent(img))
    IN  [final_img EXCEPT !.passes = img.passes + 1]

Chars_png == <<".", "p", "n", "g">>
Chars_final == <<"f", "i", "n", "a", "l", "_">>

\* a test that takes '.png' in lower case only
is_png_exact(filename) == endswith(filename, Chars_png)

\* crop.py:94
is_png(filename) == endswith(lower(filename), Chars_png)

\* os.path.splitext on a name without separators
splitext(name) ==
    LET dots == {i \in 1..Len(name) : name[i] = "."}
        dot == CHOOSE i \in dots : \A j \in dots : j <= i
    IN  IF dots # {} /\ \E i \in 1..(dot - 1) : name[i] # "."
        THEN <<SubSeq(name, 1, dot - 1), SubSeq(name, dot, Len(name))>>
        ELSE <<name, <<>>>>

\* an output path that is the input path whatever overwrite says
output_file_in_place(filename, overwrite) == filename

\* crop.py:95-102, as names inside directory_path
output_file(filename, overwrite) ==
    IF overwrite THEN filename
    ELSE Chars_final \o splitext(filename)[1] \o splitext(filename)[2]

(***************************************************************************)
(* Idle values: a specification leaves the variables of the other          *)
(* operations at these.                                                    *)
(***************************************************************************)
NoStr == <<"<unset>">>
NoRow == [Model |-> NoStr]
NoResult == Raise("<unset>")

SlugIdle == s_in = NoStr /\ s_out = NoStr /\ s_again = NoStr /\ s_pc = "idle"
IfaceIdle == if_row = NoRow /\ if_out = NoResult /\ if_pc = "idle"
MainIdle ==
    /\ m_csv = <<>> /\ m_images = {} /\ m_idx = 0 /\ m_disk = <<>> /\ m_log = <<>>
    /\ m_pc = "idle" /\ m_exc = NoExc
AspectIdle == a_img = NoImage /\ a_out = NoImage /\ a_pc = "idle"
DirIdle ==
    /\ d_files = <<>> /\ d_orig = <<>> /\ d_listing = <<>> /\ d_overwrite = TRUE
    /\ d_pos = 0 /\ d_calls = <<>> /\ d_pc = "idle"

(***************************************************************************)
(* Specification SpecIface: create_interfaces called on one row            *)
(***************************************************************************)
MaxPorts == 3

RECURSIVE SumTo(_, _)
SumTo(f, k) == IF k = 0 THEN 0 ELSE f[k] + SumTo(f, k - 1)

\* str(n) for n >= 0, as a cell
RECURSIVE Numeral(_)
Numeral(n) ==
    IF n < 10 THEN <<ToString(n)>> ELSE Numeral(n \div 10) \o <<ToString(n % 10)>>

\* a count as the file holds it
CountCell(n) == IF n < 0 THEN <<"-">> \o Numeral(0 - n) ELSE Numeral(n)

Absent == <<"<absent>">>
\* the counts of a row: at most MaxPorts ports in all; the copper count may
\* also be -1, which range() takes for no port
CountTuples ==
    {c \in [1..7 -> 0..MaxPorts] : SumTo(c, 7) <= MaxPorts}
    \cup {[c EXCEPT ![1] = 0 - 1] :
             c \in {d \in [1..7 -> 0..MaxPorts] : d[1] = 0 /\ SumTo(d, 7) <= MaxPorts}}
StackingCells ==
    {Absent, None, <<>>, <<"t","r","u","e">>, <<" ","T","r","u","e"," ">>,
     <<"f","a","l","s","e">>}
ModelCells ==
    {<<"s","-","8","p","-","2","g">>,
     <<"C","1","3","0","0","-","8","F","P","-","2","G">>,
     <<"C","1","3","0","0","-","8","T","-","E">>,
     <<"C","1","3","0","0","-","8","P">>}
OobCells == {None, <<>>, <<"0">>, <<"2">>, <<"0","1">>, <<" ","2">>, <<"x">>, <<"sup2">>}

IfaceRow(c, st, m, o) ==
    LET cols == {CountKeys[k] : k \in 1..7} \cup {"Model", "OOB"}
                    \cup (IF st = Absent THEN {} ELSE {"Stacking"})
    IN  [col \in cols |->
            CASE col = "Model" -> m
              [] col = "OOB" -> o
              [] col = "Stacking" -> st
              [] OTHER -> CountCell(c[CHOOSE k \in 1..7 : CountKeys[k] = col])]

IfaceInit ==
    /\ SlugIdle /\ MainIdle /\ AspectIdle /\ DirIdle
    /\ \E st \in StackingCells, m \in ModelCells, o \in OobCells, c \in CountTuples :
          if_row = IfaceRow(c, st, m, o)
    /\ if_out = NoResult
    /\ if_pc = "start"

CreateInterfaces ==
    /\ if_pc = "start"
    /\ if_out' = create_interfaces(if_row)
    /\ if_pc' = "done"
    /\ UNCHANGED <<if_row, slugVars, mainVars, aspectVars, dirVars>>

IfaceNext == CreateInterfaces
SpecIface == IfaceInit /\ [][IfaceNext]_vars

\* what the claims read off a row and a returned list
Returned == if_pc = "done" /\ if_out.exc = NoExc
CountOf(k) == int_(if_row[CountKeys[k]]).val
Count1G == CountOf(1) + CountOf(2) + CountOf(3) + CountOf(4)
Count10G == CountOf(5) + CountOf(6) + CountOf(7)
Repeat(x, n) == [i \in 1..n |-> x]
CategoryOrder ==
    Repeat(1, CountOf(1)) \o Repeat(2, CountOf(2)) \o Repeat(3, CountOf(3))
    \o Repeat(4, CountOf(4)) \o Repeat(5, CountOf(5)) \o Repeat(6, CountOf(6))
    \o Repeat(7, CountOf(7))
CategoryType ==
    <<"1000base-t", "1000base-x-sfp", "1000base-x-sfp", "2.5gbase-t",
      "10gbase-t", "10gbase-x-sfpp", "10gbase-x-sfpp">>
NamesOf(list) == [i \in 1..Len(list) |-> list[i].name]
NumberedNames(prefix1, prefix10) ==
    [i \in 1..Count1G |-> prefix1 \o ToString(i)]
    \o [i \in 1..Count10G |-> prefix10 \o ToString(i)]
TrueWord == <<"t", "r", "u", "e">>

\* the order, numbering and naming of C1, with the stacking test given
OrderAndNaming(stacking) ==
    LET list == if_out.val
        numbered ==
            IF stacking
            THEN NumberedNames("GigabitEthernet1/0/", "TenGigabitEthernet1/0/")
            ELSE NumberedNames("GigabitEthernet", "TenGigabitEthernet")
        order == CategoryOrder
    IN  /\ NamesOf(list) \in {numbered \o <<"Vlan1">>, numbered \o <<"OOB", "Vlan1">>}
        /\ \A p \in 1..Len(order) :
              /\ list[p].type = CategoryType[order[p]]
              /\ ("description" \in DOMAIN list[p]) <=> (order[p] \in {3, 7})
        /\ list[Len(list)].name = "Vlan1"

\* C1 (as claimed): the interfaces come in the fixed category order, the
\* first four categories numbered 1..n1 and the next three 1..n10, the
\* stacking prefix used exactly when Stacking equals 'true'
\* case-insensitively, and Vlan1 last.
C1_Original ==
    (Returned /\ \A k \in 1..7 : CountOf(k) >= 0)
        => OrderAndNaming(lower(Get(if_row, "Stacking")) = TrueWord)

\* C1 (amended): as claimed, but the stacking prefix is used exactly when
\* Stacking, with its surrounding whitespace removed, equals 'true'
\* case-insensitively.
C1_OrderAndNaming ==
    (Returned /\ \A k \in 1..7 : CountOf(k) >= 0)
        => OrderAndNaming(lower(stripChars(Get(if_row, "Stacking"), {" ", "\t"})) = TrueWord)

\* a stacking row (Stacking ' True ') with copper, SFP and 10G copper ports
C1_Witness ==
    /\ Returned
    /\ Get(if_row, "Stacking") = <<" ","T","r","u","e"," ">>
    /\ NamesOf(if_out.val) =
         <<"GigabitEthernet1/0/1", "GigabitEthernet1/0/2", "TenGigabitEthernet1/0/1", "Vlan1">>
    /\ if_out.val[1].type = "1000base-t"
    /\ if_out.val[2].type = "1000base-x-sfp"
    /\ if_out.val[3].type = "10gbase-t"

\* C2: an interface has the PoE attributes iff it is a Gigabit-copper one
\* and the Model contains 'P-' or 'FP-' case-insensitively.
C2_PoeOnlyCopper ==
    Returned =>
        LET list == if_out.val
            m == lower(if_row["Model"])
            poeModel == contains(m, <<"p", "-">>) \/ contains(m, <<"f", "p", "-">>)
            order == CategoryOrder
        IN  \A p \in 1..Len(list) :
              LET copper == p <= Len(order) /\ order[p] = 1
              IN  /\ ("poe_mode" \in DOMAIN list[p]) <=> (copper /\ poeModel)
                  /\ ("poe_type" \in DOMAIN list[p]) <=> (copper /\ poeModel)
                  /\ (copper /\ poeModel) =>
                        /\ list[p].poe_mode = "pse"
                        /\ list[p].poe_type = "type2-ieee802.3at"

\* a model with a lower-case 'p-' gave a PoE copper port and a plain SFP port
C2_Witness ==
    /\ Returned
    /\ if_row["Model"] = <<"s","-","8","p","-","2","g">>
    /\ Len(if_out.val) >= 3
    /\ "poe_mode" \in DOMAIN if_out.val[1]
    /\ if_out.val[2].type = "1000base-x-sfp"
    /\ "poe_mode" \notin DOMAIN if_out.val[2]

\* C3: there is an OOB interface iff the OOB cell is a non-empty string of
\* digits of value > 0; then there is exactly one, named OOB, 1000base-t,
\* management-only, after the numbered interfaces and just before Vlan1.
C3_OobIffPositive ==
    Returned =>
        LET list == if_out.val
            cell == if_row["OOB"]
            digits == cell # None /\ cell # <<>>
                        /\ \A i \in 1..Len(cell) : cell[i] \in AsciiDigits
            positive == digits /\ DecimalValue(cell) > 0
            at == {p \in 1..Len(list) : list[p].name = "OOB"}
        IN  /\ Cardinality(at) = (IF positive THEN 1 ELSE 0)
            /\ positive =>
                 /\ at = {Len(list) - 1}
                 /\ list[Len(list) - 1] =
                      [name |-> "OOB", type |-> "1000base-t", enabled |-> TRUE,
                       mgmt_only |-> TRUE]
                 /\ list[Len(list)].name = "Vlan1"

\* OOB '2' gave exactly one OOB interface behind two numbered ones
C3_Witness ==
    /\ Returned
    /\ if_row["OOB"] = <<"2">>
    /\ Len(if_out.val) = 4
    /\ if_out.val[3].name = "OOB"

(***************************************************************************)
(* Specification SpecMain: main over a CSV file of a few rows              *)
(***************************************************************************)
MaxRows == 2

AllColumns ==
    {CountKeys[k] : k \in 1..7}
    \cup {"Model", "Stacking", "OOB", "con0", "con1", "con2", "psu0", "Draw", "Weight (pounds)"}

\* one line of the file under the full header
Line(model, stacking, copper, oob, con0, psu0, draw, weight) ==
    [col \in AllColumns |->
        CASE col = "Model" -> model
          [] col = "Stacking" -> stacking
          [] col = "GigabitEthernet Copper" -> copper
          [] col = "TenGigabitEthernet SFP+" -> <<"1">>
          [] col = "OOB" -> oob
          [] col = "con0" -> con0
          [] col \in {"con1", "con2"} -> <<>>
          [] col = "psu0" -> psu0
          [] col = "Draw" -> draw
          [] col = "Weight (pounds)" -> weight
          [] OTHER -> <<"0">>]

Model_FP == <<"C","1","3","0","0","-","8","F","P","-","2","G">>
Model_fp == <<"c","1","3","0","0","-","8","f","p","-","2","g">>
Model_T == <<"C","1","3","0","0","-","8","T","-","E">>
Cell_c14 == <<"c", "1", "4">>
Cell_rj45 == <<"r", "j", "-", "4", "5">>
Cell_false == <<"f","a","l","s","e">>

\* the lines the files of the model are made of: three good ones (two of
\* them with models that differ in case only), a short line that lacks its
\* last cell psu0, and four lines main cannot process
Lines ==
    {Line(Model_FP, Cell_false, <<"2">>, <<>>, Cell_rj45, Cell_c14,
          <<"1","2",".","5">>, <<"3",".","2">>),
     Line(Model_fp, <<" ","T","r","u","e"," ">>, <<" ","1">>, <<"1">>, <<" ","u","s","b"," ">>,
          Cell_c14, <<"1","3",".","5">>, <<"3",".","2","0">>),
     Line(Model_T, <<>>, <<"0">>, None, <<>>, Cell_c14, <<"7">>, <<"2">>),
     Line(Model_T, <<>>, <<"1">>, <<"2">>, <<>>, None, <<"7",".","4">>, <<"2">>),
     Line(Model_T, <<>>, <<"x">>, <<>>, <<>>, Cell_c14, <<"7">>, <<"2">>),
     Line(Model_FP, <<>>, <<>>, <<>>, <<>>, Cell_c14, <<"7">>, <<"2">>),
     Line(Model_T, <<>>, <<"1">>, <<>>, <<>>, Cell_c14, <<"a","b","c">>, <<"2">>),
     Line(Model_T, <<>>, <<"1">>, <<>>, None, Cell_c14, <<"7">>, <<"2">>)}

\* the headers of the model: all columns; no console and no Stacking
\* column; no OOB column; no psu0 column
Headers ==
    {AllColumns,
     AllColumns \ {"con0", "con1", "con2", "Stacking"},
     AllColumns \ {"OOB"},
     AllColumns \ {"psu0"}}

ImagePaths ==
    {front_path(device_slug(Model_FP)), rear_path(device_slug(Model_T))}

Restrict(row, header) == [col \in header |-> row[col]]

MainInit ==
    /\ SlugIdle /\ IfaceIdle /\ AspectIdle /\ DirIdle
    /\ \E header \in Headers, n \in 0..MaxRows :
          \E lines \in [1..n -> Lines] :
             m_csv = [i \in 1..n |-> Restrict(lines[i], header)]
    /\ m_images \in SUBSET ImagePaths
    /\ m_idx = 1
    /\ m_disk = <<>>
    /\ m_log = <<>>
    /\ m_pc = "loop"
    /\ m_exc = NoExc

\* open(path, 'w'), the two writes and the close
WriteFile(disk, path, doc) ==
    [q \in DOMAIN disk \cup {path} |-> IF q = path THEN doc ELSE disk[q]]

\* generate.py:193-253, a row that is written
ProcessRow ==
    /\ m_pc = "loop"
    /\ m_idx <= Len(m_csv)
    /\ LET built == build_device(m_csv[m_idx], m_images)
           path == out_filename(m_csv[m_idx]["Model"])
       IN  /\ built.exc = NoExc
           /\ m_disk' = WriteFile(m_disk, path, Document(built.val))
           /\ m_log' = Append(m_log, [path |-> path, doc |-> Document(built.val)])
    /\ m_idx' = m_idx + 1
    /\ UNCHANGED <<m_csv, m_images, m_pc, m_exc, slugVars, ifaceVars, aspectVars, dirVars>>

\* generate.py:193-243, a row that raises: the exception leaves main
ProcessRowRaises ==
    /\ m_pc = "loop"
    /\ m_idx <= Len(m_csv)
    /\ LET built == build_device(m_csv[m_idx], m_images)
       IN  /\ built.exc # NoExc
           /\ m_exc' = built.exc
    /\ m_pc' = "raised"
    /\ UNCHANGED <<m_csv, m_images, m_idx, m_disk, m_log, slugVars, ifaceVars, aspectVars, dirVars>>

\* generate.py:193: the reader is exhausted
EndOfFile ==
    /\ m_pc = "loop"
    /\ m_idx > Len(m_csv)
    /\ m_pc' = "done"
    /\ UNCHANGED <<m_csv, m_images, m_idx, m_disk, m_log, m_exc, slugVars, ifaceVars, aspectVars, dirVars>>

MainNext == ProcessRow \/ ProcessRowRaises \/ EndOfFile
SpecMain == MainInit /\ [][MainNext]_vars

\* what the claims read off the file and the disk
ExpectedPath(row) ==
    <<"C","i","s","c","o","/">> \o upper(row["Model"]) \o <<".","y","a","m","l">>
RequiredColumns == AllColumns \ {"Stacking", "con0", "con1", "con2"}
IsIntegerText(cell) ==
    /\ cell # None
    /\ LET t == stripChars(cell, {" ", "\t"})
           ds == IF t # <<>> /\ Head(t) \in {"+", "-"} THEN Tail(t) ELSE t
       IN  ds # <<>> /\ \A i \in 1..Len(ds) : ds[i] \in AsciiDigits
\* a row that lacks a required column, or has a count that is no number
Malformed(row) ==
    \/ \E col \in RequiredColumns : col \notin DOMAIN row
    \/ \E k \in 1..7 : CountKeys[k] \in DOMAIN row /\ ~IsIntegerText(row[CountKeys[k]])
RECURSIVE Replay(_)
Replay(log) ==
    IF log = <<>> THEN <<>>
    ELSE LET before == Replay(SubSeq(log, 1, Len(log) - 1))
             last == log[Len(log)]
         IN  [q \in DOMAIN before \cup {last.path} |->
                 IF q = last.path THEN last.doc ELSE before[q]]
Running == m_pc \in {"loop", "raised", "done"}

C7_Original ==
    m_pc = "done" =>
        /\ Cardinality(DOMAIN m_disk) = Len(m_csv)
        /\ \A i \in 1..Len(m_csv) :
              /\ ExpectedPath(m_csv[i]) \in DOMAIN m_disk
              /\ m_disk[ExpectedPath(m_csv[i])] = m_log[i].doc
              /\ m_log[i].doc.body.part_number = m_csv[i]["Model"]

\* C7 (amended): after a run without error there is one document per
\* distinct uppercased Model of the file, in the file named after it, and
\* it holds the record of the last row with that uppercased Model.
C7_OneDocumentPerUpperModel ==
    m_pc = "done" =>
        /\ DOMAIN m_disk = {ExpectedPath(m_csv[i]) : i \in 1..Len(m_csv)}
        /\ \A i \in 1..Len(m_csv) :
              LET same == {j \in 1..Len(m_csv) :
                              upper(m_csv[j]["Model"]) = upper(m_csv[i]["Model"])}
                  last == CHOOSE j \in same : \A j2 \in same : j2 <= j
                  doc == m_disk[ExpectedPath(m_csv[i])]
              IN  /\ doc = m_log[last].doc
                  /\ doc.start = "---"
                  /\ doc.body = build_device(m_csv[last], m_images).val
                  /\ doc.body.part_number = m_csv[last]["Model"]

\* two rows whose models differ in case only were both written: one file
C7_Witness ==
    /\ m_pc = "done"
    /\ Len(m_csv) = 2
    /\ m_csv[1]["Model"] = Model_FP
    /\ m_csv[2]["Model"] = Model_fp
    /\ Cardinality(DOMAIN m_disk) = 1
    /\ m_disk[ExpectedPath(m_csv[1])].body.part_number = Model_fp

\* C9: a row whose only shortcomings are a missing OOB count, missing
\* console port columns or missing image files never makes main raise; its
\* document is written, with no OOB interface, no console port for a
\* missing key, and front_image / rear_image false.
SoundButSoft(row) ==
    /\ ~Malformed(row)
    /\ row["Model"] # None
    /\ float_(row["Draw"]).exc = NoExc
    /\ float_(row["Weight (pounds)"]).exc = NoExc
    /\ "Stacking" \in DOMAIN row => row["Stacking"] # None
    /\ row["OOB"] \in {None, <<>>}
    /\ \A k \in 1..3 : ConKeys[k] \in DOMAIN row => row[ConKeys[k]] # None
C9_SoftConditionsNeverFail ==
    Running =>
        /\ m_pc = "raised" => ~SoundButSoft(m_csv[m_idx])
        /\ \A i \in 1..Len(m_log) :
              LET row == m_csv[i]
                  body == m_log[i].doc.body
                  slug == <<"c","i","s","c","o","-">> \o slugify(row["Model"])
              IN  /\ row["OOB"] \in {None, <<>>} =>
                        \A p \in 1..Len(body.interfaces) : body.interfaces[p].name # "OOB"
                  /\ \A k \in 1..3 :
                        ConKeys[k] \notin DOMAIN row =>
                           \A p \in 1..Len(body.console_ports) :
                              body.console_ports[p].name # ConKeys[k]
                  /\ front_path(slug) \notin m_images => body.front_image = FALSE
                  /\ rear_path(slug) \notin m_images => body.rear_image = FALSE
                  /\ m_log[i].path \in DOMAIN m_disk

\* a row with no OOB count, under a header with no console columns and with
\* no image on disk, was written
C9_Witness ==
    /\ m_pc = "done"
    /\ Len(m_csv) = 1
    /\ "con0" \notin DOMAIN m_csv[1]
    /\ m_csv[1]["OOB"] = None
    /\ m_images = {}
    /\ Len(m_log) = 1
    /\ m_log[1].doc.body.console_ports = <<>>
    /\ m_log[1].doc.body.front_image = FALSE

(***************************************************************************)
(* Specification SpecAspect: enforce_10_to_1_aspect called on one image    *)
(***************************************************************************)
MaxWidth == 30
MaxHeight == 3

AspectInit ==
    /\ SlugIdle /\ IfaceIdle /\ MainIdle /\ DirIdle
    /\ \E mode \in {"RGBA", "RGB", "P"}, w \in 1..MaxWidth, h \in 1..MaxHeight :
          a_img = Image(mode, <<w, h>>, <<w, h>>, "img", 0)
    /\ a_out = NoImage
    /\ a_pc = "start"

EnforceAspect ==
    /\ a_pc = "start"
    /\ a_out' = enforce_10_to_1_aspect(a_img)
    /\ a_pc' = "done"
    /\ UNCHANGED <<a_img, slugVars, ifaceVars, mainVars, dirVars>>

AspectNext == EnforceAspect
SpecAspect == AspectInit /\ [][AspectNext]_vars

MaxFiles == 3

Name_a == <<"a", ".", "p", "n", "g">>
Name_final_a == <<"f", "i", "n", "a", "l", "_", "a", ".", "p", "n", "g">>
Name_B == <<"B", ".", "P", "N", "G">>
Name_notes == <<"n", "o", "t", "e", "s", ".", "t", "x", "t">>
Name_dot == <<".", "p", "n", "g">>

\* the files a directory of the model may hold: a transparent-bordered
\* image, the output of an earlier run, a fully transparent image with an
\* upper-case extension, a text file, and a '.png' no decoder can read
Universe ==
    (Name_a :> Image("RGBA", <<30, 2>>, <<25, 2>>, "a.png", 0))
    @@ (Name_final_a :> Image("RGB", <<19, 2>>, <<19, 2>>, "final_a.png", 0))
    @@ (Name_B :> Image("RGBA", <<5, 1>>, NoBox, "B.PNG", 0))
    @@ (Name_notes :> [kind |-> "text"])
    @@ (Name_dot :> [kind |-> "corrupt"])

\* the orders os.listdir may return the names in
Listings(names) ==
    {l \in [1..Cardinality(names) -> names] :
        \A i, j \in 1..Cardinality(names) : i # j => l[i] # l[j]}

DirInit ==
    /\ SlugIdle /\ IfaceIdle /\ MainIdle /\ AspectIdle
    /\ \E names \in SUBSET DOMAIN Universe :
          /\ Cardinality(names) <= MaxFiles
          /\ d_files = [n \in names |-> Universe[n]]
          /\ d_listing \in Listings(names)
    /\ d_orig = d_files
    /\ d_overwrite \in BOOLEAN
    /\ d_pos = 1
    /\ d_calls = <<>>
    /\ d_pc = "loop"

\* crop.py:93-104 with process_image (65-80): a '.png' entry that decodes
ProcessPng ==
    /\ d_pc = "loop"
    /\ d_pos <= Len(d_listing)
    /\ LET filename == d_listing[d_pos]
           output == output_file(filename, d_overwrite)
           opened == d_files[filename]
       IN  /\ is_png(filename)
           /\ opened.kind = "image"
           /\ d_files' = [q \in DOMAIN d_files \cup {output} |->
                            IF q = output THEN processed(opened) ELSE d_files[q]]
           /\ d_calls' = Append(d_calls,
                                [input |-> filename, output |-> output, opened |-> opened])
    /\ d_pos' = d_pos + 1
    /\ UNCHANGED <<d_orig, d_listing, d_overwrite, d_pc,
                   slugVars, ifaceVars, mainVars, aspectVars>>

\* crop.py:10: Image.open raises on a '.png' entry that is no image
ProcessPngRaises ==
    /\ d_pc = "loop"
    /\ d_pos <= Len(d_listing)
    /\ is_png(d_listing[d_pos])
    /\ d_files[d_listing[d_pos]].kind # "image"
    /\ d_pc' = "raised"
    /\ UNCHANGED <<d_files, d_orig, d_listing, d_overwrite, d_pos, d_calls,
                   slugVars, ifaceVars, mainVars, aspectVars>>

\* crop.py:94: an entry that does not end in '.png' is passed over
SkipEntry ==
    /\ d_pc = "loop"
    /\ d_pos <= Len(d_listing)
    /\ ~is_png(d_listing[d_pos])
    /\ d_pos' = d_pos + 1
    /\ UNCHANGED <<d_files, d_orig, d_listing, d_overwrite, d_calls, d_pc,
                   slugVars, ifaceVars, mainVars, aspectVars>>

\* crop.py:93: the listing is exhausted
EndOfListing ==
    /\ d_pc = "loop"
    /\ d_pos > Len(d_listing)
    /\ d_pc' = "done"
    /\ UNCHANGED <<d_files, d_orig, d_listing, d_overwrite, d_pos, d_calls,
                   slugVars, ifaceVars, mainVars, aspectVars>>

DirNext == ProcessPng \/ ProcessPngRaises \/ SkipEntry \/ EndOfListing
SpecDir == DirInit /\ [][DirNext]_vars

\* what the claims read off the listing
EndsInPng(name) ==
    /\ Len(name) >= 4
    /\ LowerChar(name[Len(name) - 3]) = "."
    /\ LowerChar(name[Len(name) - 2]) = "p"
    /\ LowerChar(name[Len(name) - 1]) = "n"
    /\ LowerChar(name[Len(name)]) = "g"
RECURSIVE PngEntries(_)
PngEntries(listing) ==
    IF listing = <<>> THEN <<>>
    ELSE IF EndsInPng(Head(listing)) THEN <<Head(listing)>> \o PngEntries(Tail(listing))
    ELSE PngEntries(Tail(listing))
ListedPng == {d_listing[i] : i \in {j \in 1..Len(d_listing) : EndsInPng(d_listing[j])}}
DirRunning == d_pc \in {"loop", "raised", "done"}

\* C8: process_image is called once for each entry of the listing that ends
\* in '.png' case-insensitively, in listing order, and for no other entry;
\* the output path is the input path when overwrite is true and the name
\* prefixed 'final_' when it is false.
C8_OncePerPng ==
    DirRunning =>
        /\ [i \in 1..Len(d_calls) |-> d_calls[i].input]
              = PngEntries(SubSeq(d_listing, 1, d_pos - 1))
        /\ d_pc = "done" => d_pos = Len(d_listing) + 1
        /\ \A i \in 1..Len(d_calls) :
              d_calls[i].output =
                 IF d_overwrite THEN d_calls[i].input
                 ELSE <<"f", "i", "n", "a", "l", "_">> \o d_calls[i].input

\* a listing with B.PNG, notes.txt and a.png was run through without overwrite
C8_Witness ==
    /\ d_pc = "done"
    /\ ~d_overwrite
    /\ d_listing = <<Name_B, Name_notes, Name_a>>
    /\ Len(d_calls) = 2
    /\ d_calls[1].output = <<"f", "i", "n", "a", "l", "_", "B", ".", "P", "N", "G">>

\* C10 (as claimed): with overwrite false no listed '.png' file is written
\* to, so each is unchanged after the run and is read as it was before.
C10_Original ==
    (DirRunning /\ ~d_overwrite) =>
        /\ \A i \in 1..Len(d_calls) : d_calls[i].output \notin ListedPng
        /\ \A f \in ListedPng : d_files[f] = d_orig[f]
        /\ \A i \in 1..Len(d_calls) : d_calls[i].opened = d_orig[d_calls[i].input]

\* C10 (amended): with overwrite false the only paths written are the
\* names 'final_' + f of the listed '.png' files f; every file of the
\* directory whose name is not 'final_' + g for a listed '.png' g is
\* unchanged after the run and is read as it was before.
PrefixedOfListed == {<<"f", "i", "n", "a", "l", "_">> \o g : g \in ListedPng}
C10_OnlyFinalPathsWritten ==
    (DirRunning /\ ~d_overwrite) =>
        /\ \A i \in 1..Len(d_calls) : d_calls[i].output \in PrefixedOfListed
        /\ \A f \in DOMAIN d_orig :
              f \notin PrefixedOfListed => (f \in DOMAIN d_files /\ d_files[f] = d_orig[f])
        /\ \A f \in DOMAIN d_files \ DOMAIN d_orig : f \in PrefixedOfListed
        /\ \A i \in 1..Len(d_calls) :
              d_calls[i].input \notin PrefixedOfListed
                 => d_calls[i].opened = d_orig[d_calls[i].input]

\* a.png was processed next to an older final_a.png: a.png is as it was,
\* final_a.png is not, and it was read after it had been written over
C10_Witness ==
    /\ d_pc = "done"
    /\ ~d_overwrite
    /\ d_listing = <<Name_a, Name_final_a>>
    /\ d_files[Name_a] = d_orig[Name_a]
    /\ d_files[Name_final_a] # d_orig[Name_final_a]
    /\ d_calls[2].opened # d_orig[Name_final_a]

(***************************************************************************)
(* Specification SpecSlug: slugify applied to a string, then to its result *)
(***************************************************************************)
MaxSlugLen == 3
SlugAlphabet == {"a", "B", "7", "-", "_", " ", "E_acute"}

SlugInit ==
    /\ IfaceIdle /\ MainIdle /\ AspectIdle /\ DirIdle
    /\ s_in \in StringsUpTo(SlugAlphabet, MaxSlugLen)
    /\ s_out = NoStr
    /\ s_again = NoStr
    /\ s_pc = "start"

SlugOnce ==
    /\ s_pc = "start"
    /\ s_out' = slugify(s_in)
    /\ s_pc' = "once"
    /\ UNCHANGED <<s_in, s_again, ifaceVars, mainVars, aspectVars, dirVars>>

SlugTwice ==
    /\ s_pc = "once"
    /\ s_again' = slugify(s_out)
    /\ s_pc' = "twice"
    /\ UNCHANGED <<s_in, s_out, ifaceVars, mainVars, aspectVars, dirVars>>

SlugNext == SlugOnce \/ SlugTwice
SpecSlug == SlugInit /\ [][SlugNext]_vars

\* C4: slugify(slugify(x)) = slugify(x); the output holds only [a-z0-9-],
\* never two consecutive '-', and neither starts nor ends with '-'.
C4_SlugIdempotentClean ==
    /\ s_pc \in {"once", "twice"} =>
        /\ \A i \in 1..Len(s_out) : s_out[i] \in AsciiLower \cup AsciiDigits \cup {"-"}
        /\ \A i \in 1..(Len(s_out) - 1) : ~(s_out[i] = "-" /\ s_out[i + 1] = "-")
        /\ s_out # <<>> => (s_out[1] # "-" /\ s_out[Len(s_out)] # "-")
    /\ s_pc = "twice" => s_again = s_out

\* a string with upper case, a non-ASCII letter, runs of symbols and a
\* leading symbol has been slugified twice
C4_Witness ==
    /\ s_pc = "twice"
    /\ s_in = <<"_", "B", "-">>
    /\ s_out = <<"b">>

(***************************************************************************)
(* The two scripts together: any one of the operations above               *)
(***************************************************************************)
Init == SlugInit \/ IfaceInit \/ MainInit \/ AspectInit \/ DirInit
Next == SlugNext \/ IfaceNext \/ MainNext \/ AspectNext \/ DirNext
Spec == Init /\ [][Next]_vars

====
